---------------------------- MODULE Spec2Model ----------------------------
(***************************************************************************)
(* Model of lib/utils.c of intel-cmt-cat: the read-only query functions    *)
(* over the CPU topology snapshot (struct pqos_cpuinfo) and over the       *)
(* capability snapshot (struct pqos_cap).                                  *)
(*                                                                         *)
(* Every function of utils.c is a synchronous call; one action of the      *)
(* model is one complete call.  The state is the snapshot the caller holds *)
(* plus everything the last call left behind: its return value and the     *)
(* caller-owned output locations: the count, the sockets/cores buffer,     *)
(* the returned list, the cap_item and p_mon references.                   *)
(*                                                                         *)
(* C arrays are 0-based; they are modelled as 1-based sequences, element i *)
(* of the C array being element i+1 of the sequence.  Loop indices keep    *)
(* their C values.  Pointers are records with a null flag.  ASSERT() is    *)
(* the release-build no-op; the runtime checks that follow each ASSERT are *)
(* what is modelled.                                                       *)
(***************************************************************************)
EXTENDS Integers, Sequences, FiniteSets, TLC

VARIABLES cpu, cap, call, ret, nobjs, count_pre, count, buf, core_list,
          heap, cap_item, p_mon

vars == <<cpu, cap, call, ret, nobjs, count_pre, count, buf, core_list,
          heap, cap_item, p_mon>>

---------------------------------------------------------------------------
(* Bounds of the model *)

MaxCores == 3

MaxKeyCombo == 7

MaxBuf == 3

MaxCaps == 2

MaxEvents == 2

---------------------------------------------------------------------------
(* Constants of the program *)

TOPO_OBJ_SOCKET == 0

TOPO_OBJ_L2_CLUSTER == 2

TOPO_OBJ_L3_CLUSTER == 3

PQOS_RETVAL_OK == "OK"

PQOS_RETVAL_ERROR == "ERROR"

PQOS_RETVAL_PARAM == "PARAM"

PQOS_RETVAL_RESOURCE == "RESOURCE"

\* enum pqos_cap_type: MON, L3CA, L2CA, then the NUMOF terminator.
PQOS_CAP_TYPE_MON == 0

PQOS_CAP_TYPE_NUMOF == 3

---------------------------------------------------------------------------
(* struct pqos_cpuinfo and struct pqos_coreinfo *)

NullCpu == [null |-> TRUE, num_cores |-> 0, cores |-> <<>>]

\* The (socket, l3_id, l2_id) triples a core may carry, numbered in mixed
\* radix: numbers 0..7 are all triples over the ids 0 and 1, larger numbers
\* add further l2_id values.
KeyCombo(kd) ==
    [socket |-> kd % 2, l3_id |-> (kd \div 2) % 2, l2_id |-> kd \div 4]

CoreKeys == { KeyCombo(kd) : kd \in 0..MaxKeyCombo }

\* lcore values are pairwise distinct, differ from the array index and do
\* not ascend with it.
Lcores(n) == [i \in 1..n |-> 10 + n + 1 - i]

CpuInfosOf(n) ==
    { [null |-> FALSE, num_cores |-> n,
       cores |-> [i \in 1..n |-> [lcore |-> Lcores(n)[i],
                                  socket |-> k[i].socket,
                                  l2_id |-> k[i].l2_id,
                                  l3_id |-> k[i].l3_id]]] :
        k \in [1..n -> CoreKeys] }

\* The snapshots a caller can hold, num_cores = 0 included (the code tests it).
CpuInfos == UNION { CpuInfosOf(n) : n \in 0..MaxCores }

\* cpu->cores[i]
Core(c, i) == c.cores[i + 1]

---------------------------------------------------------------------------
(* __get_num_of_topology_objs, utils.c:66-105 *)

\* The three break conditions of the inner loop (lines 89-97).
topo_same_obj(c, type, i, j) ==
    \/ type = TOPO_OBJ_SOCKET /\ Core(c, i).socket = Core(c, j).socket
    \/ type = TOPO_OBJ_L2_CLUSTER /\ Core(c, i).l2_id = Core(c, j).l2_id
    \/ type = TOPO_OBJ_L3_CLUSTER /\ Core(c, i).l3_id = Core(c, j).l3_id

\* Inner loop "for (j = 0; j < i; j++)": the value of j when the loop ends.
RECURSIVE topo_inner_j(_, _, _, _)
topo_inner_j(c, type, i, j) ==
    IF j < i
    THEN IF topo_same_obj(c, type, i, j) THEN j
         ELSE topo_inner_j(c, type, i, j + 1)
    ELSE j

\* Outer loop "for (i = 1, count = 1; i < cpu->num_cores; i++)".
RECURSIVE topo_count_loop(_, _, _, _)
topo_count_loop(c, type, i, cnt) ==
    IF i < c.num_cores
    THEN topo_count_loop(c, type, i + 1,
             IF topo_inner_j(c, type, i, 0) >= i THEN cnt + 1 ELSE cnt)
    ELSE cnt

\* Plausible bug: the core is compared with its predecessor only.
get_num_of_topology_objs_adjacent(c, type) ==
    IF c.null THEN 0
    ELSE IF type # TOPO_OBJ_SOCKET /\ type # TOPO_OBJ_L2_CLUSTER
            /\ type # TOPO_OBJ_L3_CLUSTER THEN 0
    ELSE IF c.num_cores = 0 THEN 0
    ELSE 1 + Cardinality({i \in 1..(c.num_cores - 1) :
                             ~topo_same_obj(c, type, i, i - 1)})

\* Plausible bug: the zero-core test is missing, the seed count 1 is returned.
get_num_of_topology_objs_noempty(c, type) ==
    IF c.null THEN 0
    ELSE IF type # TOPO_OBJ_SOCKET /\ type # TOPO_OBJ_L2_CLUSTER
            /\ type # TOPO_OBJ_L3_CLUSTER THEN 0
    ELSE topo_count_loop(c, type, 1, 1)

get_num_of_topology_objs(c, type) ==
    IF c.null THEN 0
    ELSE IF type # TOPO_OBJ_SOCKET /\ type # TOPO_OBJ_L2_CLUSTER
            /\ type # TOPO_OBJ_L3_CLUSTER THEN 0
    ELSE IF c.num_cores = 0 THEN 0
    ELSE topo_count_loop(c, type, 1, 1)

---------------------------------------------------------------------------
(* pqos_cpu_get_num_sockets, utils.c:107-120 *)
\* Result: the return value and the value of the caller's count afterwards.

pqos_cpu_get_num_sockets(c, count_null, count0) ==
    IF c.null \/ count_null
    THEN [ret |-> PQOS_RETVAL_PARAM, count |-> count0]
    ELSE LET n == get_num_of_topology_objs(c, TOPO_OBJ_SOCKET)
         IN  IF n = 0
             THEN [ret |-> PQOS_RETVAL_ERROR, count |-> n]
             ELSE [ret |-> PQOS_RETVAL_OK, count |-> n]

---------------------------------------------------------------------------
(* pqos_cpu_get_sockets, utils.c:122-161 *)

\* The caller's buffer of max_count entries before the call; its contents
\* are never read before being written.
RECURSIVE FreshBuf(_)
FreshBuf(n) == IF n = 0 THEN <<>> ELSE Append(FreshBuf(n - 1), -1)

\* Inner loop "for (j = 0; j < scount && scount > 0; j++)": final j.
RECURSIVE sockets_inner_j(_, _, _, _, _)
sockets_inner_j(c, i, j, scount, sockets) ==
    IF j < scount /\ scount > 0
    THEN IF Core(c, i).socket = sockets[j + 1] THEN j
         ELSE sockets_inner_j(c, i, j + 1, scount, sockets)
    ELSE j

\* Plausible bug: *count is stored before the capacity test fails.
RECURSIVE sockets_loop_earlycount(_, _, _, _, _, _)
sockets_loop_earlycount(c, max_count, i, scount, sockets, count0) ==
    IF i < c.num_cores
    THEN LET j == sockets_inner_j(c, i, 0, scount, sockets)
         IN  IF j >= scount \/ scount = 0
             THEN IF scount >= max_count
                  THEN [ret |-> PQOS_RETVAL_ERROR, count |-> scount,
                        buf |-> sockets]
                  ELSE sockets_loop_earlycount(c, max_count, i + 1,
                           scount + 1,
                           [sockets EXCEPT ![scount + 1] = Core(c, i).socket],
                           count0)
             ELSE sockets_loop_earlycount(c, max_count, i + 1, scount,
                                          sockets, count0)
    ELSE [ret |-> PQOS_RETVAL_OK, count |-> scount, buf |-> sockets]

\* Outer loop from index `i` on; count0 is *count before the call.
RECURSIVE sockets_loop(_, _, _, _, _, _)
sockets_loop(c, max_count, i, scount, sockets, count0) ==
    IF i < c.num_cores
    THEN LET j == sockets_inner_j(c, i, 0, scount, sockets)
         IN  IF j >= scount \/ scount = 0
             THEN IF scount >= max_count
                  THEN [ret |-> PQOS_RETVAL_ERROR, count |-> count0,
                        buf |-> sockets]
                  ELSE sockets_loop(c, max_count, i + 1, scount + 1,
                           [sockets EXCEPT ![scount + 1] = Core(c, i).socket],
                           count0)
             ELSE sockets_loop(c, max_count, i + 1, scount, sockets, count0)
    ELSE [ret |-> PQOS_RETVAL_OK, count |-> scount, buf |-> sockets]

pqos_cpu_get_sockets(c, max_count, count_null, sockets_null, count0, buf0) ==
    IF c.null \/ count_null \/ sockets_null \/ max_count = 0
    THEN [ret |-> PQOS_RETVAL_PARAM, count |-> count0, buf |-> buf0]
    ELSE sockets_loop(c, max_count, 1, 0, buf0, count0)

---------------------------------------------------------------------------
(* __get_cores_per_topology_obj, utils.c:177-210 *)

NullList == [null |-> TRUE, items |-> <<>>]

\* The condition of line 196-200.
core_in_obj(c, type, id, i) ==
    \/ type = TOPO_OBJ_L3_CLUSTER /\ id = Core(c, i).l3_id
    \/ type = TOPO_OBJ_L2_CLUSTER /\ id = Core(c, i).l2_id
    \/ type = TOPO_OBJ_SOCKET /\ id = Core(c, i).socket

\* Plausible bug: the array index is stored instead of the lcore field.
RECURSIVE cores_per_obj_loop_index(_, _, _, _, _)
cores_per_obj_loop_index(c, type, id, i, written) ==
    IF i < c.num_cores
    THEN cores_per_obj_loop_index(c, type, id, i + 1,
             IF core_in_obj(c, type, id, i)
             THEN Append(written, i) ELSE written)
    ELSE written

\* Loop "for (i = 0; i < cpu->num_cores; i++) core_list[num++] = lcore":
\* the written prefix core_list[0..num) as a sequence.
RECURSIVE cores_per_obj_loop(_, _, _, _, _)
cores_per_obj_loop(c, type, id, i, written) ==
    IF i < c.num_cores
    THEN cores_per_obj_loop(c, type, id, i + 1,
             IF core_in_obj(c, type, id, i)
             THEN Append(written, Core(c, i).lcore) ELSE written)
    ELSE written

\* Result: the returned pointer (list), *count afterwards, and whether the
\* block obtained from malloc() is still allocated when the call returns.
\* malloc_ok is the outcome of malloc() at line 191.
get_cores_per_topology_obj(c, type, id, count_null, count0, malloc_ok) ==
    IF c.null \/ count_null
    THEN [list |-> NullList, count |-> count0, live |-> FALSE]
    ELSE IF ~malloc_ok
    THEN [list |-> NullList, count |-> count0, live |-> FALSE]
    ELSE LET written == cores_per_obj_loop(c, type, id, 0, <<>>)
             num == Len(written)
         IN  IF num = 0
             THEN [list |-> NullList, count |-> count0, live |-> FALSE]
             ELSE [list |-> [null |-> FALSE, items |-> written],
                   count |-> num, live |-> TRUE]

(* pqos_cpu_get_cores_l3id, utils.c:212-218 *)
pqos_cpu_get_cores_l3id(c, l3_id, count_null, count0, malloc_ok) ==
    get_cores_per_topology_obj(c, TOPO_OBJ_L3_CLUSTER, l3_id, count_null,
                               count0, malloc_ok)

---------------------------------------------------------------------------
(* pqos_cpu_get_cores, utils.c:220-264 *)

\* Plausible bug: no special case for max_count == 1.
RECURSIVE get_cores_loop_nofast(_, _, _, _, _, _, _)
get_cores_loop_nofast(c, socket, max_count, i, cnt, cores, count0) ==
    IF i < c.num_cores
    THEN IF Core(c, i).socket = socket
         THEN IF cnt >= max_count
              THEN [ret |-> PQOS_RETVAL_ERROR, count |-> count0,
                    buf |-> cores]
              ELSE get_cores_loop_nofast(c, socket, max_count, i + 1,
                       cnt + 1,
                       [cores EXCEPT ![cnt + 1] = Core(c, i).lcore], count0)
         ELSE get_cores_loop_nofast(c, socket, max_count, i + 1, cnt, cores,
                                    count0)
    ELSE IF cnt = 0
         THEN [ret |-> PQOS_RETVAL_ERROR, count |-> count0, buf |-> cores]
         ELSE [ret |-> PQOS_RETVAL_OK, count |-> cnt, buf |-> cores]

\* Plausible bug: cores beyond the capacity are dropped instead of
\* failing the call.
RECURSIVE get_cores_loop_truncate(_, _, _, _, _, _, _)
get_cores_loop_truncate(c, socket, max_count, i, cnt, cores, count0) ==
    IF i < c.num_cores
    THEN IF Core(c, i).socket = socket
         THEN IF max_count = 1
              THEN [ret |-> PQOS_RETVAL_OK, count |-> 1,
                    buf |-> [cores EXCEPT ![1] = Core(c, i).lcore]]
              ELSE IF cnt >= max_count
              THEN get_cores_loop_truncate(c, socket, max_count, i + 1, cnt,
                                           cores, count0)
              ELSE get_cores_loop_truncate(c, socket, max_count, i + 1,
                       cnt + 1,
                       [cores EXCEPT ![cnt + 1] = Core(c, i).lcore], count0)
         ELSE get_cores_loop_truncate(c, socket, max_count, i + 1, cnt,
                                      cores, count0)
    ELSE IF cnt = 0
         THEN [ret |-> PQOS_RETVAL_ERROR, count |-> count0, buf |-> cores]
         ELSE [ret |-> PQOS_RETVAL_OK, count |-> cnt, buf |-> cores]

RECURSIVE get_cores_loop(_, _, _, _, _, _, _)
get_cores_loop(c, socket, max_count, i, cnt, cores, count0) ==
    IF i < c.num_cores
    THEN IF Core(c, i).socket = socket
         THEN IF max_count = 1
              THEN [ret |-> PQOS_RETVAL_OK, count |-> 1,
                    buf |-> [cores EXCEPT ![1] = Core(c, i).lcore]]
              ELSE IF cnt >= max_count
              THEN [ret |-> PQOS_RETVAL_ERROR, count |-> count0,
                    buf |-> cores]
              ELSE get_cores_loop(c, socket, max_count, i + 1, cnt + 1,
                       [cores EXCEPT ![cnt + 1] = Core(c, i).lcore], count0)
         ELSE get_cores_loop(c, socket, max_count, i + 1, cnt, cores, count0)
    ELSE IF cnt = 0
         THEN [ret |-> PQOS_RETVAL_ERROR, count |-> count0, buf |-> cores]
         ELSE [ret |-> PQOS_RETVAL_OK, count |-> cnt, buf |-> cores]

pqos_cpu_get_cores(c, socket, max_count, count_null, cores_null, count0, buf0) ==
    IF c.null \/ count_null \/ cores_null \/ max_count = 0
    THEN [ret |-> PQOS_RETVAL_PARAM, count |-> count0, buf |-> buf0]
    ELSE get_cores_loop(c, socket, max_count, 0, 0, buf0, count0)


---------------------------------------------------------------------------
(* struct pqos_cap, struct pqos_capability, struct pqos_cap_mon *)

NullCap == [null |-> TRUE, num_cap |-> 0, capabilities |-> <<>>]

\* Event tags that occur in snapshots; one more tag can be asked for.
MonEvents == {1, 2}

AskedEvents == MonEvents \cup {4}

EventLists == UNION { [1..n -> MonEvents] : n \in 0..MaxEvents }

\* A capability record: its type and, for the monitoring type, the event
\* list of u.mon (num_events = Len(events)).
Capabilities ==
    { [type |-> PQOS_CAP_TYPE_MON, events |-> e] : e \in EventLists }
    \cup { [type |-> t, events |-> <<>>] :
             t \in (PQOS_CAP_TYPE_MON + 1)..(PQOS_CAP_TYPE_NUMOF - 1) }

Caps ==
    { [null |-> FALSE, num_cap |-> Len(s), capabilities |-> s] :
        s \in UNION { [1..n -> Capabilities] : n \in 0..MaxCaps } }

\* References into the snapshot: &cap->capabilities[idx] and
\* &cap->capabilities[cap_idx].u.mon->events[ev_idx].
NullItem == [null |-> TRUE, idx |-> 0]

NullMon == [null |-> TRUE, cap_idx |-> 0, ev_idx |-> 0]

---------------------------------------------------------------------------
(* pqos_cap_get_type, utils.c:321-346 *)

\* Plausible bug: ret starts as PQOS_RETVAL_ERROR.
RECURSIVE cap_type_loop_error(_, _, _, _)
cap_type_loop_error(cp, type, i, item0) ==
    IF i < cp.num_cap
    THEN IF cp.capabilities[i + 1].type # type
         THEN cap_type_loop_error(cp, type, i + 1, item0)
         ELSE [ret |-> PQOS_RETVAL_OK,
               cap_item |-> [null |-> FALSE, idx |-> i]]
    ELSE [ret |-> PQOS_RETVAL_ERROR, cap_item |-> item0]

\* Loop of lines 337-343; item0 is *cap_item before the call.
RECURSIVE cap_type_loop(_, _, _, _)
cap_type_loop(cp, type, i, item0) ==
    IF i < cp.num_cap
    THEN IF cp.capabilities[i + 1].type # type
         THEN cap_type_loop(cp, type, i + 1, item0)
         ELSE [ret |-> PQOS_RETVAL_OK,
               cap_item |-> [null |-> FALSE, idx |-> i]]
    ELSE [ret |-> PQOS_RETVAL_RESOURCE, cap_item |-> item0]

pqos_cap_get_type(cp, type, cap_item_null, item0) ==
    IF cp.null \/ cap_item_null
    THEN [ret |-> PQOS_RETVAL_PARAM, cap_item |-> item0]
    ELSE IF type >= PQOS_CAP_TYPE_NUMOF
    THEN [ret |-> PQOS_RETVAL_PARAM, cap_item |-> item0]
    ELSE cap_type_loop(cp, type, 0, item0)

---------------------------------------------------------------------------
(* pqos_cap_get_event, utils.c:348-379 *)

\* Loop of lines 370-376 over mon->events of capability record number ci.
RECURSIVE cap_event_loop(_, _, _, _, _)
cap_event_loop(cp, ci, event, i, mon0) ==
    IF i < Len(cp.capabilities[ci + 1].events)
    THEN IF cp.capabilities[ci + 1].events[i + 1] = event
         THEN [ret |-> PQOS_RETVAL_OK,
               p_mon |-> [null |-> FALSE, cap_idx |-> ci, ev_idx |-> i]]
         ELSE cap_event_loop(cp, ci, event, i + 1, mon0)
    ELSE [ret |-> PQOS_RETVAL_ERROR, p_mon |-> mon0]

\* Plausible bug: a failed monitoring lookup is reported as a plain error.
pqos_cap_get_event_error(cp, event, p_mon_null, mon0) ==
    IF cp.null \/ p_mon_null
    THEN [ret |-> PQOS_RETVAL_PARAM, p_mon |-> mon0]
    ELSE LET r == pqos_cap_get_type(cp, PQOS_CAP_TYPE_MON, FALSE, NullItem)
         IN  IF r.ret # PQOS_RETVAL_OK
             THEN [ret |-> PQOS_RETVAL_ERROR, p_mon |-> mon0]
             ELSE cap_event_loop(cp, r.cap_item.idx, event, 0, mon0)

pqos_cap_get_event(cp, event, p_mon_null, mon0) ==
    IF cp.null \/ p_mon_null
    THEN [ret |-> PQOS_RETVAL_PARAM, p_mon |-> mon0]
    ELSE LET r == pqos_cap_get_type(cp, PQOS_CAP_TYPE_MON, FALSE, NullItem)
         IN  IF r.ret # PQOS_RETVAL_OK
             THEN [ret |-> r.ret, p_mon |-> mon0]
             ELSE cap_event_loop(cp, r.cap_item.idx, event, 0, mon0)

---------------------------------------------------------------------------
(* The calls a client makes *)

\* Values the caller's count variable may hold before a call; count_pre
\* records the value it held when the last call was made.
PriorCounts == {0, 9}

\* Topology object types a caller may pass: the three defined ones and
\* two undefined ones.
TopoTypes == 0..(TOPO_OBJ_L3_CLUSTER + 1)

\* Group ids a caller may ask for; ids of every key lie in this range.
Ids ==
    { k.socket : k \in CoreKeys } \cup { k.l2_id : k \in CoreKeys }
        \cup { k.l3_id : k \in CoreKeys }

NoCall == [fn |-> "none", type |-> 0, id |-> 0, max_count |-> 0,
           count_null |-> FALSE, out_null |-> FALSE, malloc_ok |-> TRUE]

Invoke(fn, type, id, max_count, count_null, out_null, malloc_ok) ==
    [fn |-> fn, type |-> type, id |-> id, max_count |-> max_count,
     count_null |-> count_null, out_null |-> out_null,
     malloc_ok |-> malloc_ok]

InitCommon ==
    /\ call = NoCall
    /\ ret = "NONE"
    /\ nobjs = 0
    /\ count \in PriorCounts
    /\ count_pre = count
    /\ buf = <<>>
    /\ core_list = NullList
    /\ heap = FALSE
    /\ cap_item = NullItem
    /\ p_mon = NullMon

\* The client holds a topology snapshot (or a null pointer).
Init ==
    /\ cpu \in CpuInfos \cup {NullCpu}
    /\ cap = NullCap
    /\ InitCommon

\* The client holds a capability snapshot (or a null pointer).
InitCap ==
    /\ cpu = NullCpu
    /\ cap \in Caps \cup {NullCap}
    /\ InitCommon

Call_get_num_of_topology_objs ==
    /\ call = NoCall
    /\ \E type \in TopoTypes :
        /\ call' = Invoke("get_num_of_topology_objs", type, 0, 0,
                          FALSE, FALSE, TRUE)
        /\ nobjs' = get_num_of_topology_objs(cpu, type)
        /\ ret' = "NONE"
        /\ count_pre' = count /\ count' = count /\ buf' = <<>>
        /\ core_list' = NullList /\ heap' = FALSE
        /\ UNCHANGED <<cpu, cap, cap_item, p_mon>>

Call_pqos_cpu_get_num_sockets ==
    /\ call = NoCall
    /\ \E count_null \in BOOLEAN :
        LET r == pqos_cpu_get_num_sockets(cpu, count_null, count)
        IN  /\ call' = Invoke("pqos_cpu_get_num_sockets", TOPO_OBJ_SOCKET,
                              0, 0, count_null, FALSE, TRUE)
            /\ ret' = r.ret
            /\ count_pre' = count /\ count' = r.count
            /\ nobjs' = 0 /\ buf' = <<>>
            /\ core_list' = NullList /\ heap' = FALSE
            /\ UNCHANGED <<cpu, cap, cap_item, p_mon>>

Call_pqos_cpu_get_sockets ==
    /\ call = NoCall
    /\ \E max_count \in 0..MaxBuf, count_null \in BOOLEAN,
       sockets_null \in BOOLEAN :
        LET r == pqos_cpu_get_sockets(cpu, max_count, count_null,
                                      sockets_null, count,
                                      FreshBuf(max_count))
        IN  /\ call' = Invoke("pqos_cpu_get_sockets", TOPO_OBJ_SOCKET, 0,
                              max_count, count_null, sockets_null, TRUE)
            /\ ret' = r.ret
            /\ count_pre' = count /\ count' = r.count
            /\ buf' = r.buf
            /\ nobjs' = 0 /\ core_list' = NullList /\ heap' = FALSE
            /\ UNCHANGED <<cpu, cap, cap_item, p_mon>>

Call_get_cores_per_topology_obj ==
    /\ call = NoCall
    /\ \E type \in TopoTypes, id \in Ids, count_null \in BOOLEAN,
       malloc_ok \in BOOLEAN :
        LET r == get_cores_per_topology_obj(cpu, type, id, count_null,
                                            count, malloc_ok)
        IN  /\ call' = Invoke("get_cores_per_topology_obj", type, id, 0,
                              count_null, FALSE, malloc_ok)
            /\ core_list' = r.list
            /\ heap' = r.live
            /\ count_pre' = count /\ count' = r.count
            /\ ret' = "NONE" /\ nobjs' = 0 /\ buf' = <<>>
            /\ UNCHANGED <<cpu, cap, cap_item, p_mon>>

Call_pqos_cpu_get_cores_l3id ==
    /\ call = NoCall
    /\ \E l3_id \in Ids, count_null \in BOOLEAN,
       malloc_ok \in BOOLEAN :
        LET r == pqos_cpu_get_cores_l3id(cpu, l3_id, count_null, count,
                                         malloc_ok)
        IN  /\ call' = Invoke("pqos_cpu_get_cores_l3id",
                              TOPO_OBJ_L3_CLUSTER, l3_id, 0, count_null,
                              FALSE, malloc_ok)
            /\ core_list' = r.list
            /\ heap' = r.live
            /\ count_pre' = count /\ count' = r.count
            /\ ret' = "NONE" /\ nobjs' = 0 /\ buf' = <<>>
            /\ UNCHANGED <<cpu, cap, cap_item, p_mon>>

Call_pqos_cpu_get_cores ==
    /\ call = NoCall
    /\ \E socket \in Ids, max_count \in 0..MaxBuf, count_null \in BOOLEAN,
       cores_null \in BOOLEAN :
        LET r == pqos_cpu_get_cores(cpu, socket, max_count, count_null,
                                    cores_null, count, FreshBuf(max_count))
        IN  /\ call' = Invoke("pqos_cpu_get_cores", TOPO_OBJ_SOCKET, socket,
                              max_count, count_null, cores_null, TRUE)
            /\ ret' = r.ret
            /\ count_pre' = count /\ count' = r.count
            /\ buf' = r.buf
            /\ nobjs' = 0 /\ core_list' = NullList /\ heap' = FALSE
            /\ UNCHANGED <<cpu, cap, cap_item, p_mon>>

Call_pqos_cap_get_type ==
    /\ call = NoCall
    /\ \E type \in 0..PQOS_CAP_TYPE_NUMOF, cap_item_null \in BOOLEAN :
        LET r == pqos_cap_get_type(cap, type, cap_item_null, NullItem)
        IN  /\ call' = Invoke("pqos_cap_get_type", type, 0, 0, FALSE,
                              cap_item_null, TRUE)
            /\ ret' = r.ret
            /\ cap_item' = r.cap_item
            /\ p_mon' = NullMon
            /\ UNCHANGED <<cpu, cap, nobjs, count_pre, count, buf,
                           core_list, heap>>

Call_pqos_cap_get_event ==
    /\ call = NoCall
    /\ \E event \in AskedEvents, p_mon_null \in BOOLEAN :
        LET r == pqos_cap_get_event(cap, event, p_mon_null, NullMon)
        IN  /\ call' = Invoke("pqos_cap_get_event", event, 0, 0, FALSE,
                              p_mon_null, TRUE)
            /\ ret' = r.ret
            /\ p_mon' = r.p_mon
            /\ cap_item' = NullItem
            /\ UNCHANGED <<cpu, cap, nobjs, count_pre, count, buf,
                           core_list, heap>>

\* The client has used the results of the last call: it drops its output
\* variables and frees the list it owns.  The snapshots stay as they are.
Release ==
    /\ call # NoCall
    /\ call' = NoCall
    /\ ret' = "NONE"
    /\ nobjs' = 0
    /\ count' \in PriorCounts
    /\ count_pre' = count'
    /\ buf' = <<>>
    /\ core_list' = NullList
    /\ heap' = FALSE
    /\ cap_item' = NullItem
    /\ p_mon' = NullMon
    /\ UNCHANGED <<cpu, cap>>

Next ==
    \/ Call_get_num_of_topology_objs
    \/ Call_pqos_cpu_get_num_sockets
    \/ Call_pqos_cpu_get_sockets
    \/ Call_get_cores_per_topology_obj
    \/ Call_pqos_cpu_get_cores_l3id
    \/ Call_pqos_cpu_get_cores
    \/ Release

NextCap ==
    \/ Call_pqos_cap_get_type
    \/ Call_pqos_cap_get_event
    \/ Release

Spec == Init /\ [][Next]_vars

SpecCap == InitCap /\ [][NextCap]_vars


---------------------------------------------------------------------------
(* Reference notions the properties are stated with *)

TopoKinds == {TOPO_OBJ_SOCKET, TOPO_OBJ_L2_CLUSTER, TOPO_OBJ_L3_CLUSTER}

KeyOf(core, type) ==
    IF type = TOPO_OBJ_SOCKET THEN core.socket
    ELSE IF type = TOPO_OBJ_L2_CLUSTER THEN core.l2_id
    ELSE core.l3_id

\* The distinct values of a key over all cores of a snapshot.
GroupIds(c, type) == { KeyOf(c.cores[k], type) : k \in 1..c.num_cores }

\* The lcore of every core whose key equals id, in snapshot order.
MembersOf(c, type, id) ==
    LET sel == SelectSeq(c.cores, LAMBDA x : KeyOf(x, type) = id)
    IN  [k \in 1..Len(sel) |-> sel[k].lcore]

\* The distinct socket ids in the order of their first appearance.
FirstSeenSockets(c) ==
    LET firsts == SelectSeq([k \in 1..c.num_cores |-> k],
                      LAMBDA k : \A j \in 1..(k - 1) :
                                    c.cores[j].socket # c.cores[k].socket)
    IN  [k \in 1..Len(firsts) |-> c.cores[firsts[k]].socket]

\* The first n entries of a buffer (all of it when it is shorter).
Prefix(b, n) == [k \in 1..(IF n <= Len(b) THEN n ELSE Len(b)) |-> b[k]]

\* Entries of the caller's buffer the call has written.
Written(b) == { k \in 1..Len(b) : b[k] # -1 }

Min(S) == CHOOSE x \in S : \A y \in S : x <= y

\* The last call had a snapshot and non-null output pointers.
GoodArgs(fn) ==
    /\ call.fn = fn
    /\ ~cpu.null
    /\ ~call.count_null
    /\ ~call.out_null

---------------------------------------------------------------------------
(* Properties *)

\* C1: on a snapshot with at least one core, for each of the three grouping
\* keys, __get_num_of_topology_objs returns the number of distinct values of
\* the key over all cores, in whatever order the cores are; and
\* pqos_cpu_get_num_sockets returns OK with that number for the socket key.
C1_CountGroups ==
    /\ (/\ call.fn = "get_num_of_topology_objs"
        /\ ~cpu.null /\ cpu.num_cores >= 1
        /\ call.type \in TopoKinds)
       => nobjs = Cardinality(GroupIds(cpu, call.type))
    /\ (GoodArgs("pqos_cpu_get_num_sockets") /\ cpu.num_cores >= 1)
       => /\ ret = PQOS_RETVAL_OK
          /\ count = Cardinality(GroupIds(cpu, TOPO_OBJ_SOCKET))

\* A count where the duplicate of a key is not next to its first occurrence.
C1_Witness ==
    /\ call.fn = "get_num_of_topology_objs"
    /\ call.type = TOPO_OBJ_L2_CLUSTER
    /\ ~cpu.null /\ cpu.num_cores >= 3
    /\ Core(cpu, 0).l2_id = Core(cpu, 2).l2_id
    /\ Core(cpu, 0).l2_id # Core(cpu, 1).l2_id
    /\ nobjs = 2

\* C2: with max_count at least the number of distinct socket ids,
\* pqos_cpu_get_sockets returns OK, sets the count to the number of distinct
\* socket ids over all cores, the first core included, and fills the buffer
\* with each distinct id once, in the order of first appearance.
C2_ListSocketsAllCores ==
    (/\ GoodArgs("pqos_cpu_get_sockets")
     /\ call.max_count >= 1
     /\ call.max_count >= Cardinality(GroupIds(cpu, TOPO_OBJ_SOCKET)))
    => /\ ret = PQOS_RETVAL_OK
       /\ count = Cardinality(GroupIds(cpu, TOPO_OBJ_SOCKET))
       /\ Prefix(buf, count) = FirstSeenSockets(cpu)

\* C3: with max_count >= 1 strictly less than the number of distinct socket
\* ids over all cores, pqos_cpu_get_sockets returns PQOS_RETVAL_ERROR; and
\* when it returns OK the count is not greater than the entries written.
C3_ListSocketsOverflow ==
    (GoodArgs("pqos_cpu_get_sockets") /\ call.max_count >= 1)
    => /\ call.max_count < Cardinality(GroupIds(cpu, TOPO_OBJ_SOCKET))
          => ret = PQOS_RETVAL_ERROR
       /\ ret = PQOS_RETVAL_OK => count <= Cardinality(Written(buf))

\* C4 as stated: __get_cores_per_topology_obj / pqos_cpu_get_cores_l3id
\* returns the list of the lcores of the cores whose key equals the id, in
\* snapshot order, with the count of them, whenever a core has that key
\* value, and NULL with nothing left allocated when none has.
C4_CoresInGroupAlways ==
    (/\ call.fn \in {"get_cores_per_topology_obj", "pqos_cpu_get_cores_l3id"}
     /\ ~cpu.null /\ ~call.count_null
     /\ call.type \in TopoKinds)
    => LET m == MembersOf(cpu, call.type, call.id)
       IN  IF m # <<>>
           THEN /\ ~core_list.null
                /\ core_list.items = m
                /\ count = Len(m)
           ELSE core_list.null /\ ~heap

\* C4 amended: the same, provided malloc() returns a block; when malloc()
\* fails the call returns NULL, leaves the count alone and nothing is
\* allocated.
C4_CoresInGroup ==
    (/\ call.fn \in {"get_cores_per_topology_obj", "pqos_cpu_get_cores_l3id"}
     /\ ~cpu.null /\ ~call.count_null
     /\ call.type \in TopoKinds)
    => LET m == MembersOf(cpu, call.type, call.id)
       IN  IF m # <<>> /\ call.malloc_ok
           THEN /\ ~core_list.null
                /\ core_list.items = m
                /\ count = Len(m)
                /\ heap
           ELSE core_list.null /\ ~heap /\ count = count_pre

\* Two cores of the L3 cluster with a core of another cluster between them.
C4_Witness ==
    /\ call.fn = "pqos_cpu_get_cores_l3id"
    /\ call.malloc_ok
    /\ ~cpu.null /\ cpu.num_cores >= 3
    /\ Core(cpu, 1).l3_id # call.id
    /\ ~core_list.null
    /\ core_list.items = <<Core(cpu, 0).lcore, Core(cpu, 2).lcore>>
    /\ count = 2

\* C5: pqos_cpu_get_cores with max_count == 1 on a socket with two or more
\* cores returns OK, count 1 and the lcore of the first core of the socket.
C5_FirstCoreFastPath ==
    (/\ GoodArgs("pqos_cpu_get_cores")
     /\ call.max_count = 1
     /\ Len(MembersOf(cpu, TOPO_OBJ_SOCKET, call.id)) >= 2)
    => /\ ret = PQOS_RETVAL_OK
       /\ count = 1
       /\ buf[1] = MembersOf(cpu, TOPO_OBJ_SOCKET, call.id)[1]

\* The socket has two cores and the first of them is not core 0.
C5_Witness ==
    /\ GoodArgs("pqos_cpu_get_cores")
    /\ call.max_count = 1
    /\ cpu.num_cores >= 3
    /\ Core(cpu, 0).socket # call.id
    /\ Len(MembersOf(cpu, TOPO_OBJ_SOCKET, call.id)) >= 2
    /\ ret = PQOS_RETVAL_OK
    /\ buf[1] = Core(cpu, 1).lcore

\* C6: for max_count > 1 and m cores on the socket, pqos_cpu_get_cores
\* returns OK with count m and the m lcores in snapshot order exactly when
\* 1 <= m <= max_count; it returns PQOS_RETVAL_ERROR when m > max_count, and
\* when m = 0 (that also for max_count == 1).
C6_CoresOnSocket ==
    (GoodArgs("pqos_cpu_get_cores") /\ call.max_count >= 1)
    => LET m == MembersOf(cpu, TOPO_OBJ_SOCKET, call.id)
           n == Len(m)
       IN  /\ call.max_count > 1
              => ((/\ ret = PQOS_RETVAL_OK
                   /\ count = n
                   /\ Prefix(buf, n) = m)
                  <=> (1 <= n /\ n <= call.max_count))
           /\ (call.max_count > 1 /\ n > call.max_count)
              => ret = PQOS_RETVAL_ERROR
           /\ n = 0 => ret = PQOS_RETVAL_ERROR

\* More cores on the socket than a buffer of two entries holds.
C6_Witness ==
    /\ GoodArgs("pqos_cpu_get_cores")
    /\ call.max_count = 2
    /\ Len(MembersOf(cpu, TOPO_OBJ_SOCKET, call.id)) = 3
    /\ ret = PQOS_RETVAL_ERROR

\* C7: on a non-null capability snapshot and a tag of the enumeration,
\* pqos_cap_get_type returns PQOS_RETVAL_RESOURCE when no record has the
\* tag, and otherwise OK with a reference to the first record that has it.
C7_FindByTag ==
    (/\ call.fn = "pqos_cap_get_type"
     /\ ~cap.null /\ ~call.out_null
     /\ call.type < PQOS_CAP_TYPE_NUMOF)
    => LET hits == { i \in 0..(cap.num_cap - 1) :
                        cap.capabilities[i + 1].type = call.type }
       IN  IF hits = {}
           THEN ret = PQOS_RETVAL_RESOURCE /\ cap_item.null
           ELSE /\ ret = PQOS_RETVAL_OK
                /\ ~cap_item.null
                /\ cap_item.idx = Min(hits)

\* Two records, neither with the tag that was asked for.
C7_Witness ==
    /\ call.fn = "pqos_cap_get_type"
    /\ ~cap.null /\ ~call.out_null
    /\ cap.num_cap >= 2
    /\ call.type < PQOS_CAP_TYPE_NUMOF
    /\ ret = PQOS_RETVAL_RESOURCE

\* C8: on a non-null capability snapshot pqos_cap_get_event returns
\* PQOS_RETVAL_RESOURCE when there is no monitoring record, PQOS_RETVAL_ERROR
\* when the (first) monitoring record has no event with the tag, and
\* otherwise OK with a reference to the first event that has the tag.
C8_FindEvent ==
    (/\ call.fn = "pqos_cap_get_event"
     /\ ~cap.null /\ ~call.out_null)
    => LET mons == { i \in 0..(cap.num_cap - 1) :
                        cap.capabilities[i + 1].type = PQOS_CAP_TYPE_MON }
       IN  IF mons = {}
           THEN ret = PQOS_RETVAL_RESOURCE /\ p_mon.null
           ELSE LET evs == cap.capabilities[Min(mons) + 1].events
                    hits == { k \in 0..(Len(evs) - 1) :
                                 evs[k + 1] = call.type }
                IN  IF hits = {}
                    THEN ret = PQOS_RETVAL_ERROR /\ p_mon.null
                    ELSE /\ ret = PQOS_RETVAL_OK
                         /\ ~p_mon.null
                         /\ p_mon.cap_idx = Min(mons)
                         /\ p_mon.ev_idx = Min(hits)

\* The event found is the second event of a monitoring record that is the
\* second record of the snapshot.
C8_Witness ==
    /\ call.fn = "pqos_cap_get_event"
    /\ ret = PQOS_RETVAL_OK
    /\ ~p_mon.null
    /\ p_mon.cap_idx = 1
    /\ p_mon.ev_idx = 1

\* C9 as stated: counting fails with PQOS_RETVAL_PARAM at
\* pqos_cpu_get_num_sockets when the snapshot is null or has zero cores,
\* __get_num_of_topology_objs reports zero for these and for an undefined
\* key, and no success status is reported.
C9_CountGroupsInvalidArgument ==
    /\ (/\ call.fn = "pqos_cpu_get_num_sockets"
        /\ ~call.count_null
        /\ (cpu.null \/ cpu.num_cores = 0))
       => ret = PQOS_RETVAL_PARAM
    /\ (/\ call.fn = "get_num_of_topology_objs"
        /\ (cpu.null \/ cpu.num_cores = 0 \/ call.type \notin TopoKinds))
       => nobjs = 0

\* C9 amended: __get_num_of_topology_objs returns zero in the three cases;
\* pqos_cpu_get_num_sockets returns PQOS_RETVAL_PARAM for a null snapshot,
\* leaving the count alone, and PQOS_RETVAL_ERROR with the count set to zero
\* for a snapshot of zero cores; it never returns OK in these cases.
C9_CountGroupsFailure ==
    /\ (/\ call.fn = "get_num_of_topology_objs"
        /\ (cpu.null \/ cpu.num_cores = 0 \/ call.type \notin TopoKinds))
       => nobjs = 0
    /\ (call.fn = "pqos_cpu_get_num_sockets" /\ cpu.null)
       => ret = PQOS_RETVAL_PARAM /\ count = count_pre
    /\ (/\ call.fn = "pqos_cpu_get_num_sockets"
        /\ ~cpu.null /\ ~call.count_null
        /\ cpu.num_cores = 0)
       => ret = PQOS_RETVAL_ERROR /\ count = 0

\* A snapshot of zero cores: the count, non-zero before, is now zero.
C9_Witness ==
    /\ call.fn = "pqos_cpu_get_num_sockets"
    /\ ~cpu.null /\ ~call.count_null
    /\ cpu.num_cores = 0
    /\ count_pre # 0
    /\ count = 0
    /\ ret = PQOS_RETVAL_ERROR

\* C10: a call of pqos_cpu_get_sockets or pqos_cpu_get_cores leaves the
\* topology snapshot as it was, and when it returns a status other than OK
\* the caller's count holds the value it held before the call.
C10_CountOnlyOnOK ==
    [][call'.fn \in {"pqos_cpu_get_sockets", "pqos_cpu_get_cores"}
       => /\ cpu' = cpu
          /\ ret' # PQOS_RETVAL_OK => count' = count]_vars

\* An overflow after the buffer was partly written: the count is untouched.
C10_Witness ==
    /\ GoodArgs("pqos_cpu_get_sockets")
    /\ ret = PQOS_RETVAL_ERROR
    /\ Written(buf) # {}
    /\ count_pre # 0
    /\ count = count_pre


====
